---- MODULE Spec2Model ----
(***************************************************************************)
(* super-dns-lookup: the LookupController and the collaborators it is      *)
(* constructed with (cache service, failover strategy, hosts file service, *)
(* resolver service, is-ip service), as they are written in src/.          *)
(*                                                                         *)
(* In the source every public method of LookupController has the body      *)
(*     throw new Error('Method not implemented.');                         *)
(* bootstrap, install and teardown are `async`, so the throw becomes a     *)
(* rejected promise; lookup is not `async`, so it throws to its caller.    *)
(* The collaborators' state (cache contents, hosts file, resolver answer,  *)
(* clock) is kept so that what the documentation promises for a call can   *)
(* be stated against what the call does.                                   *)
(* UniversalFailoverStrategy and RoundRobinChoiceStrategy are implemented; *)
(* SpecFailover and SpecChoice exercise them on their own, and SpecOptions *)
(* constructs the controller with any throttling and persistence options.  *)
(* SpecStateless asks the failover strategy again and again, SpecCache     *)
(* drives LRUCacheService against a record of what was set and used, and   *)
(* SpecHosts constructs UniversalHostsFileService on every platform.       *)
(***************************************************************************)
EXTENDS Integers, Sequences, FiniteSets, TLC

(***************************************************************************)
(* Bounds of the model                                                     *)
(***************************************************************************)
\* how many times the clock advances in one behaviour
MaxTicks == 1
\* how many chooseOne() calls are made with one array instance in one behaviour
MaxChooses == 4
\* how many items an array handed to chooseOne holds at most
MaxArrayLen == 3
\* how many set() calls are made with one cache key in one behaviour
MaxSets == 2
\* the largest maxHostnames option an LRUCacheService is constructed with
MaxCapacity == 2
\* how many bootstrap() calls are made in one behaviour
MaxBootstraps == 2
\* how many lookup() calls are made in one behaviour
MaxLookups == 2
\* capacity the modelled LRUCacheService is constructed with (maxHostnames option)
MaxHostnamesOption == 1

(***************************************************************************)
(* Values                                                                  *)
(***************************************************************************)
None == "none"
\* the absence of a lookup result
NoValue == <<>>
\* JavaScript `false`, as the failover strategy returns it
JsFalse == [false |-> TRUE]
\* JavaScript `undefined`, as a method returns it
Undefined == "undefined"
NotImplemented == "Method not implemented."
EmptyArrayError == "EmptyArrayError"

\* node:dns error codes used by the failover strategy and the resolver
CONNREFUSED == "ECONNREFUSED"
NOTFOUND == "ENOTFOUND"
REFUSED == "EREFUSED"
SERVFAIL == "ESERVFAIL"
TIMEOUT == "ETIMEOUT"
NODATA == "ENODATA"
BADFAMILY == "EBADFAMILY"
BADFLAGS == "EBADFLAGS"
BADHINTS == "EBADHINTS"
BADNAME == "EBADNAME"
BADQUERY == "EBADQUERY"
BADRESP == "EBADRESP"
BADSTR == "EBADSTR"
CANCELLED == "ECANCELLED"
FORMERR == "EFORMERR"
NOMEM == "ENOMEM"
NONAME == "ENONAME"
NOTIMP == "ENOTIMP"
NOTINITIALIZED == "ENOTINITIALIZED"

DnsCodes ==
    {CONNREFUSED, NOTFOUND, REFUSED, SERVFAIL, TIMEOUT, NODATA, BADFAMILY,
     BADFLAGS, BADHINTS, BADNAME, BADQUERY, BADRESP, BADSTR, CANCELLED, FORMERR,
     NOMEM, NONAME, NOTIMP, NOTINITIALIZED}

\* error codes a caller may configure or an error may carry: the node:dns
\* codes, codes of the caller's own, and the empty string
Codes == DnsCodes \cup {"cache this", "cache that", "do not cache this", ""}

\* A hostname or an address is its sequence of dot-separated labels.
ExampleCom == <<"ex", "com">>
Literal4 == <<"1", "2", "3", "4">>
Hostnames == {ExampleCom, Literal4}

\* decimal octets that occur in the modelled hostnames
DecOctets == {"0", "1", "2", "3", "4", "255"}

Families == {0, 4, 6}
HintSets == {{}, {"V4MAPPED"}}
Styles == {"promise", "callback"}
LookupOptionsSet == [family : Families, hints : HintSets]

\* clock steps, in milliseconds
TickSteps == {1000, 3601001}

VARIABLES
    now,          \* wall clock, ms
    ticks,        \* number of clock advances so far
    lru,          \* LRUCacheService.lru: <<key, value>> pairs, most recently used first
    hostsFile,    \* hostname/address pairs the configured HostsFileService serves
    resolverErr,  \* error code the configured ResolverService answers with, or None
    strategy,     \* fields of the configured UniversalFailoverStrategy
    collab,       \* how many times the controller invoked each collaborator method
    callbacks,    \* how many times the controller invoked a caller's callback
    chosenFrom,   \* lengths of the arrays the controller passed to chooseOne
    bootstraps,   \* number of bootstrap() calls made
    lookups,      \* number of lookup() calls made
    last,         \* the last call made on the controller and how it ended
    controller,   \* fields the LookupController constructor set from its options
    decision,     \* the last call made on the failover strategy and what it returned
    choices,      \* RoundRobinChoiceStrategy.choices: array instance -> index
    arrays,       \* contents of the array instances handed to chooseOne
    callsOn,      \* number of chooseOne calls made with each array instance
    resized,      \* array instances whose length was changed after creation
    chosen,       \* the last chooseOne call and how it ended
    answered,     \* per failover method, the last question put to it and its answer
    lruMax,       \* LRUCacheService.lru.max
    stored,       \* per cache key, the value of the last set(key, value), if any
    recency,      \* cache keys by last use (a set or a get that hit), latest first
    setsOn,       \* number of set calls made with each cache key
    cacheCall,    \* the last call made on the LRUCacheService and what it returned
    hostsService, \* the last new UniversalHostsFileService(options) and its outcome
    hostsCall     \* the last method called on that service and how it ended

vars == <<now, ticks, lru, hostsFile, resolverErr, strategy, collab, callbacks,
          chosenFrom, bootstraps, lookups, last, controller, decision, choices,
          arrays, callsOn, resized, chosen, answered, lruMax, stored, recency,
          setsOn, cacheCall, hostsService, hostsCall>>

\* state of the services when they are exercised on their own
serviceVars ==
    <<answered, lruMax, stored, recency, setsOn, cacheCall, hostsService,
      hostsCall>>

\* state of the strategies when they are exercised on their own
strategyVars == <<decision, choices, arrays, callsOn, resized, chosen>>

(***************************************************************************)
(* NodeIsIpService (node:net isIPv4): four decimal octets                  *)
(***************************************************************************)
isIPv4(hostname) ==
    /\ Len(hostname) = 4
    /\ \A i \in 1..4 : hostname[i] \in DecOctets

(***************************************************************************)
(* UniversalFailoverStrategy                                               *)
(***************************************************************************)
\* An error value as getErrorCode inspects it.
DnsError(code) ==
    [isObject |-> TRUE, isNull |-> FALSE, hasCode |-> TRUE,
     codeIsString |-> TRUE, code |-> code]

DefaultCacheErrorTtlMs == 1000

\* the default the option's doc comment announces: `@default 3600_0000`
DocumentedCacheMaxExpirationMs == 36000000

DefaultCacheMaxExpirationMs == 3600000

\* defaults that would also cache the "no data" answer
DefaultFailoverStrategy_cachesNoData ==
    [cacheErrorCodes |-> <<CONNREFUSED, NOTFOUND, REFUSED, SERVFAIL, TIMEOUT, NODATA>>,
     cacheErrorTtlMs |-> DefaultCacheErrorTtlMs,
     cacheMaxExpirationMs |-> DefaultCacheMaxExpirationMs,
     useExpiredCacheOnErrorCodes |-> <<CONNREFUSED, NOTFOUND, REFUSED, SERVFAIL, TIMEOUT>>]

\* defaults that would also let the expired cache answer for "no data"
DefaultFailoverStrategy_expiredOnNoData ==
    [cacheErrorCodes |-> <<CONNREFUSED, NOTFOUND, REFUSED, SERVFAIL, TIMEOUT>>,
     cacheErrorTtlMs |-> DefaultCacheErrorTtlMs,
     cacheMaxExpirationMs |-> DefaultCacheMaxExpirationMs,
     useExpiredCacheOnErrorCodes |-> <<CONNREFUSED, NOTFOUND, REFUSED, SERVFAIL, TIMEOUT, NODATA>>]

\* constructor, every option left to its default
DefaultFailoverStrategy ==
    [cacheErrorCodes |-> <<CONNREFUSED, NOTFOUND, REFUSED, SERVFAIL, TIMEOUT>>,
     cacheErrorTtlMs |-> DefaultCacheErrorTtlMs,
     cacheMaxExpirationMs |-> DefaultCacheMaxExpirationMs,
     useExpiredCacheOnErrorCodes |-> <<CONNREFUSED, NOTFOUND, REFUSED, SERVFAIL, TIMEOUT>>]

\* constructor: an option that is given replaces the default
OptionNames ==
    {"cacheErrorCodes", "cacheErrorTtlMs", "cacheMaxExpirationMs",
     "useExpiredCacheOnErrorCodes"}

UniversalFailoverStrategy(opts) ==
    [name \in OptionNames |->
        IF name \in opts.given THEN opts[name] ELSE DefaultFailoverStrategy[name]]

\* lists of codes a caller configures
CodeLists ==
    {<<>>, <<TIMEOUT>>, <<NOTFOUND, NODATA>>, <<"cache this", "cache that">>,
     <<"", TIMEOUT>>}

FailoverOptionsSet ==
    [given : SUBSET OptionNames,
     cacheErrorCodes : CodeLists,
     cacheErrorTtlMs : {5000},
     cacheMaxExpirationMs : {60000},
     useExpiredCacheOnErrorCodes : CodeLists]

\* Errors getErrorCode finds no code in: a value that is not an object, null,
\* an object without a code field, an object whose code is not a string.
\* code is the text such a value or field would print as.
UnknownErrors ==
    {[isObject |-> FALSE, isNull |-> FALSE, hasCode |-> FALSE,
      codeIsString |-> FALSE, code |-> TIMEOUT],
     [isObject |-> TRUE, isNull |-> TRUE, hasCode |-> FALSE,
      codeIsString |-> FALSE, code |-> "null"],
     [isObject |-> TRUE, isNull |-> FALSE, hasCode |-> FALSE,
      codeIsString |-> FALSE, code |-> "undefined"],
     [isObject |-> TRUE, isNull |-> FALSE, hasCode |-> TRUE,
      codeIsString |-> FALSE, code |-> "undefined"],
     [isObject |-> TRUE, isNull |-> FALSE, hasCode |-> TRUE,
      codeIsString |-> FALSE, code |-> TIMEOUT]}

Errors == {DnsError(code) : code \in Codes} \cup UnknownErrors

\* Array.prototype.includes
Includes(array, x) == \E i \in 1..Len(array) : array[i] = x

\* a getErrorCode without the `typeof error.code === 'string'` test
getErrorCode_anyCode(error) ==
    IF error.isObject /\ ~error.isNull /\ error.hasCode
    THEN error.code
    ELSE None

getErrorCode(error) ==
    IF error.isObject /\ ~error.isNull /\ error.hasCode /\ error.codeIsString
    THEN error.code
    ELSE None

\* `code && ...`: undefined and the empty string are both falsy
Truthy(code) == code # None /\ code # ""

\* a strategy that remembers which method it was asked last, and refuses to
\* cache a failure right after it has ruled on the expired cache
cacheResolverFailure_afterUseExpired(self, error) ==
    LET code == getErrorCode(error) IN
    IF /\ decision.method # "useExpiredCache"
       /\ Truthy(code)
       /\ Includes(self.cacheErrorCodes, code)
    THEN [ttlMs |-> self.cacheErrorTtlMs]
    ELSE JsFalse

cacheResolverFailure(self, error) ==
    LET code == getErrorCode(error) IN
    IF Truthy(code) /\ Includes(self.cacheErrorCodes, code)
    THEN [ttlMs |-> self.cacheErrorTtlMs]
    ELSE JsFalse

\* a useExpiredCache that consults the list its doc comment names, cacheErrorCodes
useExpiredCache_byCacheErrorCodes(self, error) ==
    LET code == getErrorCode(error) IN
    IF Truthy(code) /\ Includes(self.cacheErrorCodes, code)
    THEN [maxExpirationMs |-> self.cacheMaxExpirationMs]
    ELSE JsFalse

useExpiredCache(self, error) ==
    LET code == getErrorCode(error) IN
    IF Truthy(code) /\ Includes(self.useExpiredCacheOnErrorCodes, code)
    THEN [maxExpirationMs |-> self.cacheMaxExpirationMs]
    ELSE JsFalse

(***************************************************************************)
(* RoundRobinChoiceStrategy                                                *)
(***************************************************************************)
\* An array handed to chooseOne is an instance (its identity, the WeakMap key)
\* and its items; self.choices maps the instances seen so far to an index.
ArrayIds == {"A", "B"}
Items == <<"x", "y", "z", "w", "v">>
\* what a call that threw returned
NoItem == "none"

\* a strategy that keeps one index for all arrays
chooseOne_sharedIndex(self, array) ==
    LET n == Len(array.items)
        seen == DOMAIN self.choices IN
    IF n = 0
    THEN [error |-> EmptyArrayError, value |-> NoItem, choices |-> self.choices]
    ELSE IF seen = {}
    THEN [error |-> None, value |-> array.items[1],
          choices |-> (array.id :> 0) @@ self.choices]
    ELSE LET index == self.choices[CHOOSE a \in seen : TRUE] + 1
             next == IF index < n THEN index ELSE 0 IN
         [error |-> None, value |-> array.items[next + 1],
          choices |-> [a \in seen \cup {array.id} |-> next]]

\* a strategy that tests for the empty array only when it meets an array anew
chooseOne_emptyTestedOnce(self, array) ==
    LET n == Len(array.items) IN
    IF array.id \notin DOMAIN self.choices
    THEN IF n = 0
         THEN [error |-> EmptyArrayError, value |-> NoItem, choices |-> self.choices]
         ELSE [error |-> None, value |-> array.items[1],
               choices |-> (array.id :> 0) @@ self.choices]
    ELSE LET index == self.choices[array.id] + 1 IN
         IF index < n
         THEN [error |-> None, value |-> array.items[index + 1],
               choices |-> [self.choices EXCEPT ![array.id] = index]]
         ELSE [error |-> None,
               value |-> IF n = 0 THEN NoItem ELSE array.items[1],
               choices |-> [self.choices EXCEPT ![array.id] = 0]]

\* a strategy that restarts the rotation of an array it finds empty
chooseOne_resetsOnEmpty(self, array) ==
    LET n == Len(array.items) IN
    IF n = 0
    THEN [error |-> EmptyArrayError, value |-> NoItem,
          choices |-> [a \in DOMAIN self.choices \cup {array.id} |->
                          IF a = array.id THEN 0 ELSE self.choices[a]]]
    ELSE IF array.id \notin DOMAIN self.choices
    THEN [error |-> None, value |-> array.items[1],
          choices |-> (array.id :> 0) @@ self.choices]
    ELSE LET index == self.choices[array.id] + 1 IN
         IF index < n
         THEN [error |-> None, value |-> array.items[index + 1],
               choices |-> [self.choices EXCEPT ![array.id] = index]]
         ELSE [error |-> None, value |-> array.items[1],
               choices |-> [self.choices EXCEPT ![array.id] = 0]]

\* a strategy that advances the index without testing it against the length
chooseOne_noWrapCheck(self, array) ==
    LET n == Len(array.items) IN
    IF n = 0
    THEN [error |-> EmptyArrayError, value |-> NoItem, choices |-> self.choices]
    ELSE IF array.id \notin DOMAIN self.choices
    THEN [error |-> None, value |-> array.items[1],
          choices |-> (array.id :> 0) @@ self.choices]
    ELSE LET index == self.choices[array.id] + 1 IN
         [error |-> None,
          value |-> IF index < n THEN array.items[index + 1] ELSE NoItem,
          choices |-> [self.choices EXCEPT ![array.id] = index]]

\* chooseOne(array): the error thrown or the element returned, and the choices
\* map the call leaves behind
chooseOne(self, array) ==
    LET n == Len(array.items) IN
    IF n = 0
    THEN [error |-> EmptyArrayError, value |-> NoItem, choices |-> self.choices]
    ELSE IF array.id \notin DOMAIN self.choices
    THEN [error |-> None, value |-> array.items[1],
          choices |-> (array.id :> 0) @@ self.choices]
    ELSE LET index == self.choices[array.id] + 1 IN
         IF index < n
         THEN [error |-> None, value |-> array.items[index + 1],
               choices |-> [self.choices EXCEPT ![array.id] = index]]
         ELSE [error |-> None, value |-> array.items[1],
               choices |-> [self.choices EXCEPT ![array.id] = 0]]

(***************************************************************************)
(* LRUCacheService over lru-cache: pairs kept most recently used first     *)
(***************************************************************************)
DefaultMaxHostnames == 1000

\* constructor({ maxHostnames = 1000 } = {}): the max the LRUCache is created with
LRUCacheService(opts) ==
    IF opts.given THEN opts.maxHostnames ELSE DefaultMaxHostnames

CacheOptionsSet == [given : BOOLEAN, maxHostnames : 1..MaxCapacity]

\* keys and values a caller of the service uses
ServiceKeys == {"key1", "key2", "key3"}
ServiceValues == {"value1", "value2"}

RECURSIVE IndexOfKey(_, _, _)
IndexOfKey(pairs, key, i) ==
    IF i > Len(pairs) THEN 0
    ELSE IF pairs[i][1] = key THEN i
    ELSE IndexOfKey(pairs, key, i + 1)

RemoveAt(pairs, i) ==
    [j \in 1..(Len(pairs) - 1) |-> IF j < i THEN pairs[j] ELSE pairs[j + 1]]

CacheHas(pairs, key) == IndexOfKey(pairs, key, 1) # 0

\* LRUCacheService.get: the value stored for a key that is held (undefined
\* otherwise, see CacheHas); a hit becomes most recent
CacheGetValue(pairs, key) == pairs[IndexOfKey(pairs, key, 1)][2]

\* a get that leaves the order of use alone
CacheAfterGet_noPromotion(pairs, key) == pairs

CacheAfterGet(pairs, key) ==
    LET i == IndexOfKey(pairs, key, 1) IN
    IF i = 0 THEN pairs ELSE <<pairs[i]>> \o RemoveAt(pairs, i)

\* a set that never evicts
CacheAfterSet_unbounded(pairs, max, key, value) ==
    LET i == IndexOfKey(pairs, key, 1) IN
    IF i # 0 THEN <<(<<key, value>>)>> \o RemoveAt(pairs, i)
    ELSE <<(<<key, value>>)>> \o pairs

\* a set that keeps the value a key already has
CacheAfterSet_keepsFirst(pairs, max, key, value) ==
    LET i == IndexOfKey(pairs, key, 1) IN
    IF i # 0 THEN <<pairs[i]>> \o RemoveAt(pairs, i)
    ELSE IF Len(pairs) >= max
         THEN <<(<<key, value>>)>> \o SubSeq(pairs, 1, max - 1)
         ELSE <<(<<key, value>>)>> \o pairs

\* LRUCacheService.set: override or insert as most recent, evicting the least recent
CacheAfterSet(pairs, max, key, value) ==
    LET i == IndexOfKey(pairs, key, 1) IN
    IF i # 0 THEN <<(<<key, value>>)>> \o RemoveAt(pairs, i)
    ELSE IF Len(pairs) >= max
         THEN <<(<<key, value>>)>> \o SubSeq(pairs, 1, max - 1)
         ELSE <<(<<key, value>>)>> \o pairs

\* LRUCacheService.entries: Array.from(this.lru.entries()), the pairs from the
\* most recently used to the least recently used
CacheEntries(pairs) == [i \in 1..Len(pairs) |-> <<pairs[i][1], pairs[i][2]>>]

(***************************************************************************)
(* UniversalHostsFileService                                               *)
(***************************************************************************)
\* A path is the sequence of the pieces of its text; a backslash is a piece
\* of its own, and so is a character that follows a backslash.
Backslash == "\\"
EmptyPath == <<>>
EtcHosts == <<"/etc/hosts">>

\* the path the option's and read()'s doc comments announce for Windows
WindowsHostsPath ==
    <<"C:", Backslash, "W", "indows", Backslash, "S", "ystem32", Backslash, "d",
      "rivers", Backslash, "e", "tc", Backslash, "h", "osts">>

\* the characters between the quotes of the literal in `case 'win32'`
Win32PathLiteral ==
    <<"C:", Backslash, "W", "indows", Backslash, "S", "ystem32", Backslash, "d",
      "rivers", Backslash, "e", "tc", Backslash, "h", "osts">>

\* single character escapes of a JavaScript string literal
ControlChar ==
    [b |-> "<BS>", f |-> "<FF>", n |-> "<LF>", r |-> "<CR>", t |-> "<HT>",
     v |-> "<VT>"]

\* The string a literal denotes: a backslash and the character after it stand
\* for a control character if the character is an escape, and for the
\* character alone otherwise.
RECURSIVE StringValue(_)
StringValue(source) ==
    IF source = <<>> THEN <<>>
    ELSE IF Head(source) = Backslash /\ Len(source) >= 2
    THEN <<(IF source[2] \in DOMAIN ControlChar
            THEN ControlChar[source[2]] ELSE source[2])>>
         \o StringValue(SubSeq(source, 3, Len(source)))
    ELSE <<Head(source)>> \o StringValue(Tail(source))

\* values of node:os platform()
Platforms ==
    {"aix", "android", "darwin", "freebsd", "haiku", "linux", "openbsd", "sunos",
     "win32", "cygwin", "netbsd"}

UnsupportedPlatform == "UnsupportedPlatform"

ExplicitPaths ==
    {<<"/root/etc/hosts">>, <<"./hosts">>, <<"D:", Backslash, "hosts">>}

\* constructor options: none, or a path (which may be the empty string)
HostsOptionsSet ==
    {[given |-> FALSE, path |-> EmptyPath]}
        \cup [given : {TRUE}, path : ExplicitPaths \cup {EmptyPath}]

\* a constructor that looks at the platform before it looks at the path
UniversalHostsFileService_platformFirst(opts, platformName) ==
    IF platformName \notin {"darwin", "linux", "win32"}
    THEN [error |-> UnsupportedPlatform, path |-> EmptyPath]
    ELSE IF opts.given /\ opts.path # EmptyPath
    THEN [error |-> None, path |-> opts.path]
    ELSE IF platformName = "win32"
    THEN [error |-> None, path |-> StringValue(Win32PathLiteral)]
    ELSE [error |-> None, path |-> EtcHosts]

\* constructor({ path } = {}): the error thrown, or the path stored
UniversalHostsFileService(opts, platformName) ==
    IF opts.given /\ opts.path # EmptyPath
    THEN [error |-> None, path |-> opts.path]
    ELSE IF platformName \in {"darwin", "linux"}
    THEN [error |-> None, path |-> EtcHosts]
    ELSE IF platformName = "win32"
    THEN [error |-> None, path |-> StringValue(Win32PathLiteral)]
    ELSE [error |-> UnsupportedPlatform, path |-> EmptyPath]

\* public read() { throw new Error('Method not implemented.'); }
read == [delivery |-> "throw", error |-> NotImplemented]
\* public watch(updateHandler) { throw new Error('Method not implemented.'); }
watch == [delivery |-> "throw", error |-> NotImplemented]
\* public stopWatching() { throw new Error('Method not implemented.'); }
stopWatching == [delivery |-> "throw", error |-> NotImplemented]

(***************************************************************************)
(* What the collaborators hold                                             *)
(***************************************************************************)
Methods ==
    {"resolve4", "resolve6", "cache.get", "cache.set", "cache.entries",
     "hosts.read", "hosts.watch", "hosts.stopWatching",
     "storage.read", "storage.write", "chooseOne",
     "cacheResolverFailure", "useExpiredCache", "isIPv4", "isIPv6",
     "throttleResolve"}

\* cache keys: one per (hostname, family)
CacheKeys == {<<ExampleCom, 4>>, <<ExampleCom, 6>>}

StoredAddresses == <<(<<"1", "1", "1", "1">>), (<<"2", "2", "2", "2">>)>>
NoSuccess == [present |-> FALSE, addresses |-> <<>>, expiresAtMs |-> 0]
NoFailure == [present |-> FALSE, code |-> None, expiresAtMs |-> 0]
SuccessParts == {[present |-> TRUE, addresses |-> StoredAddresses, expiresAtMs |-> 1000]}
FailureParts ==
    {[present |-> TRUE, code |-> TIMEOUT, expiresAtMs |-> 500],
     [present |-> TRUE, code |-> TIMEOUT, expiresAtMs |-> 4000000]}

\* values the owner of the cache service stores: resolved addresses with their
\* expiry, a resolver failure with its expiry, or both
CacheValues ==
    {v \in [success : SuccessParts \cup {NoSuccess},
            failure : FailureParts \cup {NoFailure}] :
        /\ v.success.present \/ v.failure.present
        /\ v.success.present /\ v.failure.present => v.failure.expiresAtMs > 1000}

HostsFiles == {<<>>, <<(<<ExampleCom, <<"10", "0", "0", "1">> >>)>>}
ResolverErrs == {None, TIMEOUT, NODATA}
Agents == {"http.Agent", "https.Agent"}

(***************************************************************************)
(* LookupController                                                        *)
(***************************************************************************)
\* How a call ends: delivery is "throw" (synchronous exception), "reject" or
\* "fulfil" (the returned promise), or "callback"; invoked lists the
\* collaborator methods the call invoked, in order, and chooseOneLengths the
\* lengths of the arrays it passed to ChoiceStrategy.chooseOne.
Thrown(message) ==
    [delivery |-> "throw", error |-> message, value |-> NoValue,
     invoked |-> <<>>, chooseOneLengths |-> {}, callbackCalls |-> 0]

Rejected(message) ==
    [delivery |-> "reject", error |-> message, value |-> NoValue,
     invoked |-> <<>>, chooseOneLengths |-> {}, callbackCalls |-> 0]

\* Option values of the constructor: `undefined` (the option is absent), `null`,
\* or an instance the caller supplies.
Absent == "undefined"
Null == "null"
UniversalThrottlingStrategy == "UniversalThrottlingStrategy"
\* a caller's ThrottlingStrategy whose throttleResolve(resolve) returns resolve
IdentityThrottlingStrategy == "IdentityThrottlingStrategy"
\* a caller's PersistentStorageService
CallerStorageService == "PersistentStorageService"

ThrottlingOptions == {Absent, Null, IdentityThrottlingStrategy}
StorageOptions == {Absent, Null, CallerStorageService}
ControllerOptionsSet ==
    [throttlingStrategy : ThrottlingOptions, persistentStorageService : StorageOptions]

\* constructor: a destructuring default replaces an absent option, and only that
LookupController(opts) ==
    [persistentStorageService |->
        IF opts.persistentStorageService = Absent
        THEN Null ELSE opts.persistentStorageService,
     throttlingStrategy |->
        IF opts.throttlingStrategy = Absent
        THEN UniversalThrottlingStrategy ELSE opts.throttlingStrategy]

\* new LookupController()
NoControllerOptions ==
    [throttlingStrategy |-> Absent, persistentStorageService |-> Absent]

\* a bootstrap that reads and watches the hosts file before it gives up
bootstrap_readsHosts ==
    [Rejected(NotImplemented) EXCEPT !.invoked = <<"hosts.read", "hosts.watch">>]

\* public async bootstrap() { throw new Error('Method not implemented.'); }
bootstrap == Rejected(NotImplemented)

\* public async install(agent) { throw new Error('Method not implemented.'); }
install(agent) == Rejected(NotImplemented)

\* a lookup that hands ChoiceStrategy.chooseOne the empty candidate list of an
\* IPv4 literal asked for as family 6, and lets its EmptyArrayError escape
lookup_choosesFromEmpty(self, hostname, options, style) ==
    IF isIPv4(hostname) /\ options.family = 6 /\ options.hints = {}
    THEN [delivery |-> "throw", error |-> EmptyArrayError, value |-> NoValue,
          invoked |-> <<"isIPv4", "chooseOne">>, chooseOneLengths |-> {0},
          callbackCalls |-> 0]
    ELSE Thrown(NotImplemented)

\* a lookup that reaches the resolver only through self.throttlingStrategy: it
\* asks nothing of the resolver when the strategy is null, and fails in the
\* UniversalThrottlingStrategy's own throttleResolve when the option is absent
lookup_throttledOnly(self, hostname, options, style) ==
    LET resolve == IF options.family = 4 THEN "resolve4" ELSE "resolve6" IN
    IF self.throttlingStrategy = Null
    THEN Thrown(NotImplemented)
    ELSE IF self.throttlingStrategy = UniversalThrottlingStrategy
    THEN [Thrown(NotImplemented) EXCEPT !.invoked = <<"throttleResolve">>]
    ELSE [Thrown(NotImplemented) EXCEPT !.invoked = <<"throttleResolve", resolve>>]

\* public lookup(hostname, optionsOrCallback?, maybeCallback?) { throw ...; }
\* not an async function: the error is thrown to the caller in both styles
lookup(self, hostname, options, style) == Thrown(NotImplemented)

\* public async teardown() { throw new Error('Method not implemented.'); }
teardown == Rejected(NotImplemented)

CountIn(invoked, m) == Cardinality({i \in 1..Len(invoked) : invoked[i] = m})

\* the bookkeeping of one call on the controller
Record(op, hostname, options, style, effect) ==
    /\ last' = [op |-> op, hostname |-> hostname, options |-> options,
                style |-> style, delivery |-> effect.delivery,
                error |-> effect.error, value |-> effect.value]
    /\ collab' = [m \in Methods |-> collab[m] + CountIn(effect.invoked, m)]
    /\ callbacks' = effect.callbackCalls
    /\ chosenFrom' = chosenFrom \cup effect.chooseOneLengths

NoOptions == [family |-> 0, hints |-> {}]
NoHostname == <<>>

\* nothing has been asked of the controller
ControllerIdle ==
    /\ now = 0
    /\ ticks = 0
    /\ lru = <<>>
    /\ collab = [m \in Methods |-> 0]
    /\ callbacks = 0
    /\ chosenFrom = {}
    /\ bootstraps = 0
    /\ lookups = 0
    /\ last = [op |-> None, hostname |-> NoHostname, options |-> NoOptions,
               style |-> None, delivery |-> None, error |-> None, value |-> NoValue]

NoDecision == [method |-> None, error |-> DnsError(None), result |-> JsFalse]
NoChoice == [array |-> None, length |-> 0, error |-> None, value |-> NoItem]

\* nothing has been asked of the strategies
StrategiesIdle ==
    /\ decision = NoDecision
    /\ choices = <<>>
    /\ arrays = [a \in ArrayIds |-> <<>>]
    /\ callsOn = [a \in ArrayIds |-> 0]
    /\ resized = {}
    /\ chosen = NoChoice

FailoverMethods == {"cacheResolverFailure", "useExpiredCache"}
NoAnswer ==
    [asked |-> FALSE, error |-> DnsError(None), hostname |-> NoHostname,
     result |-> JsFalse]
NoCacheCall == [method |-> None, key |-> None, value |-> Undefined, pairs |-> <<>>]
NoHostsService ==
    [constructed |-> FALSE, platform |-> None,
     options |-> [given |-> FALSE, path |-> EmptyPath],
     error |-> None, path |-> EmptyPath]
NoHostsCall == [method |-> None, delivery |-> None, error |-> None]

\* nothing has been asked of the cache service through its own methods
CacheIdle ==
    /\ stored = [k \in ServiceKeys |-> Undefined]
    /\ recency = <<>>
    /\ setsOn = [k \in ServiceKeys |-> 0]
    /\ cacheCall = NoCacheCall

\* nothing has been asked of the services
ServicesIdle ==
    /\ answered = [m \in FailoverMethods |-> NoAnswer]
    /\ lruMax = MaxHostnamesOption
    /\ CacheIdle
    /\ hostsService = NoHostsService
    /\ hostsCall = NoHostsCall

\* new LookupController() over the default failover strategy
Init ==
    /\ ControllerIdle
    /\ hostsFile \in HostsFiles
    /\ resolverErr \in ResolverErrs
    /\ strategy = DefaultFailoverStrategy
    /\ controller = LookupController(NoControllerOptions)
    /\ StrategiesIdle
    /\ ServicesIdle

Bootstrap ==
    /\ bootstraps < MaxBootstraps
    /\ Record("bootstrap", NoHostname, NoOptions, "promise", bootstrap)
    /\ bootstraps' = bootstraps + 1
    /\ UNCHANGED <<now, ticks, lru, hostsFile, resolverErr, strategy, lookups, controller, strategyVars,
                       serviceVars>>

Install ==
    \E agent \in Agents :
        /\ Record("install", NoHostname, NoOptions, "promise", install(agent))
        /\ UNCHANGED <<now, ticks, lru, hostsFile, resolverErr, strategy, bootstraps,
                       lookups, controller, strategyVars,
                       serviceVars>>

Lookup ==
    \E hostname \in Hostnames, options \in LookupOptionsSet, style \in Styles :
        /\ lookups < MaxLookups
        /\ Record("lookup", hostname, options, style,
                  lookup(controller, hostname, options, style))
        /\ lookups' = lookups + 1
        /\ UNCHANGED <<now, ticks, lru, hostsFile, resolverErr, strategy, bootstraps, controller, strategyVars,
                       serviceVars>>

Teardown ==
    /\ Record("teardown", NoHostname, NoOptions, "promise", teardown)
    /\ UNCHANGED <<now, ticks, lru, hostsFile, resolverErr, strategy, bootstraps,
                   lookups, controller, strategyVars,
                       serviceVars>>

\* the owner of the cache service stores a value (LRUCacheService.set)
CacheSet ==
    \E key \in CacheKeys, value \in CacheValues :
        /\ lru' = CacheAfterSet(lru, MaxHostnamesOption, key, value)
        /\ UNCHANGED <<now, ticks, hostsFile, resolverErr, strategy, collab,
                       callbacks, chosenFrom, bootstraps, lookups, last, controller,
                       strategyVars,
                       serviceVars>>

\* the owner of the cache service reads a value (LRUCacheService.get)
CacheGet ==
    \E key \in CacheKeys :
        /\ lru' = CacheAfterGet(lru, key)
        /\ UNCHANGED <<now, ticks, hostsFile, resolverErr, strategy, collab,
                       callbacks, chosenFrom, bootstraps, lookups, last, controller,
                       strategyVars,
                       serviceVars>>

\* time passes
Tick ==
    \E step \in TickSteps :
        /\ ticks < MaxTicks
        /\ ticks' = ticks + 1
        /\ now' = now + step
        /\ UNCHANGED <<lru, hostsFile, resolverErr, strategy, collab, callbacks,
                       chosenFrom, bootstraps, lookups, last, controller,
                       strategyVars,
                       serviceVars>>

Next ==
    \/ Bootstrap
    \/ Install
    \/ Lookup
    \/ Teardown
    \/ CacheSet
    \/ CacheGet
    \/ Tick

Spec == Init /\ [][Next]_vars

(***************************************************************************)
(* The controller constructed with any throttling and persistence options  *)
(***************************************************************************)
InitOptions ==
    /\ ControllerIdle
    /\ hostsFile \in HostsFiles
    /\ resolverErr \in ResolverErrs
    /\ strategy = DefaultFailoverStrategy
    /\ controller \in {LookupController(opts) : opts \in ControllerOptionsSet}
    /\ StrategiesIdle
    /\ ServicesIdle

NextOptions ==
    \/ Bootstrap
    \/ Install
    \/ Lookup
    \/ Teardown

SpecOptions == InitOptions /\ [][NextOptions]_vars

controllerVars ==
    <<now, ticks, lru, hostsFile, resolverErr, collab, callbacks, chosenFrom,
      bootstraps, lookups, last, controller>>

(***************************************************************************)
(* UniversalFailoverStrategy on its own: any options, any error            *)
(***************************************************************************)
InitFailover ==
    /\ ControllerIdle
    /\ hostsFile = <<>>
    /\ resolverErr = None
    /\ strategy \in {UniversalFailoverStrategy(opts) : opts \in FailoverOptionsSet}
    /\ controller = LookupController(NoControllerOptions)
    /\ StrategiesIdle
    /\ ServicesIdle

CacheResolverFailure ==
    \E error \in Errors :
        /\ decision' = [method |-> "cacheResolverFailure", error |-> error,
                        result |-> cacheResolverFailure(strategy, error)]
        /\ UNCHANGED <<controllerVars, serviceVars, strategy, choices, arrays, callsOn, resized,
                       chosen>>

UseExpiredCache ==
    \E error \in Errors :
        /\ decision' = [method |-> "useExpiredCache", error |-> error,
                        result |-> useExpiredCache(strategy, error)]
        /\ UNCHANGED <<controllerVars, serviceVars, strategy, choices, arrays, callsOn, resized,
                       chosen>>

NextFailover ==
    \/ CacheResolverFailure
    \/ UseExpiredCache

SpecFailover == InitFailover /\ [][NextFailover]_vars

(***************************************************************************)
(* RoundRobinChoiceStrategy on its own: one strategy, arrays of any length *)
(***************************************************************************)
InitChoice ==
    /\ ControllerIdle
    /\ hostsFile = <<>>
    /\ resolverErr = None
    /\ strategy = DefaultFailoverStrategy
    /\ controller = LookupController(NoControllerOptions)
    /\ decision = NoDecision
    /\ choices = <<>>
    /\ arrays \in [ArrayIds -> {SubSeq(Items, 1, n) : n \in 0..MaxArrayLen}]
    /\ callsOn = [a \in ArrayIds |-> 0]
    /\ resized = {}
    /\ chosen = NoChoice
    /\ ServicesIdle

ChooseOne ==
    \E a \in ArrayIds :
        /\ callsOn[a] < MaxChooses
        /\ LET call == chooseOne([choices |-> choices],
                                 [id |-> a, items |-> arrays[a]]) IN
           /\ choices' = call.choices
           /\ chosen' = [array |-> a, length |-> Len(arrays[a]),
                         error |-> call.error, value |-> call.value]
        /\ callsOn' = [callsOn EXCEPT ![a] = @ + 1]
        /\ UNCHANGED <<controllerVars, serviceVars, strategy, decision, arrays, resized>>

\* the owner of an array appends an item to it
Push ==
    \E a \in ArrayIds :
        /\ Len(arrays[a]) < MaxArrayLen
        /\ arrays' = [arrays EXCEPT ![a] = Append(@, Items[Len(@) + 1])]
        /\ resized' = resized \cup {a}
        /\ UNCHANGED <<controllerVars, serviceVars, strategy, decision, choices, callsOn, chosen>>

\* the owner of an array removes its last item
Pop ==
    \E a \in ArrayIds :
        /\ Len(arrays[a]) > 0
        /\ arrays' = [arrays EXCEPT ![a] = SubSeq(@, 1, Len(@) - 1)]
        /\ resized' = resized \cup {a}
        /\ UNCHANGED <<controllerVars, serviceVars, strategy, decision, choices, callsOn, chosen>>

NextChoice ==
    \/ ChooseOne
    \/ Push
    \/ Pop

SpecChoice == InitChoice /\ [][NextChoice]_vars

(***************************************************************************)
(* UniversalFailoverStrategy asked as a FailoverStrategy: with the         *)
(* hostname argument of the interface, and with its earlier answers kept   *)
(***************************************************************************)
\* an error with a message next to what getErrorCode inspects
WithMessage(error, message) ==
    [isObject |-> error.isObject, isNull |-> error.isNull,
     hasCode |-> error.hasCode, codeIsString |-> error.codeIsString,
     code |-> error.code, message |-> message]

AskedErrors ==
    {WithMessage(DnsError(code), message) :
        code \in {TIMEOUT, NODATA, ""}, message \in {"timed out", "no luck"}}
    \cup {WithMessage(error, "unknown") :
            error \in {u \in UnknownErrors : u.code = TIMEOUT}}

InitStateless ==
    /\ ControllerIdle
    /\ hostsFile = <<>>
    /\ resolverErr = None
    /\ strategy \in {UniversalFailoverStrategy(opts) : opts \in FailoverOptionsSet}
    /\ controller = LookupController(NoControllerOptions)
    /\ StrategiesIdle
    /\ ServicesIdle

\* cacheResolverFailure(error, hostname): the method declares error alone
AskCacheResolverFailure ==
    \E error \in AskedErrors, hostname \in Hostnames :
        LET result == cacheResolverFailure(strategy, error) IN
        /\ decision' = [method |-> "cacheResolverFailure", error |-> error,
                        result |-> result]
        /\ answered' = [answered EXCEPT !["cacheResolverFailure"] =
                            [asked |-> TRUE, error |-> error,
                             hostname |-> hostname, result |-> result]]
        /\ UNCHANGED <<controllerVars, strategy, choices, arrays, callsOn, resized,
                       chosen, lruMax, stored, recency, setsOn, cacheCall,
                       hostsService, hostsCall>>

\* useExpiredCache(error, hostname): the method declares error alone
AskUseExpiredCache ==
    \E error \in AskedErrors, hostname \in Hostnames :
        LET result == useExpiredCache(strategy, error) IN
        /\ decision' = [method |-> "useExpiredCache", error |-> error,
                        result |-> result]
        /\ answered' = [answered EXCEPT !["useExpiredCache"] =
                            [asked |-> TRUE, error |-> error,
                             hostname |-> hostname, result |-> result]]
        /\ UNCHANGED <<controllerVars, strategy, choices, arrays, callsOn, resized,
                       chosen, lruMax, stored, recency, setsOn, cacheCall,
                       hostsService, hostsCall>>

NextStateless ==
    \/ AskCacheResolverFailure
    \/ AskUseExpiredCache

SpecStateless == InitStateless /\ [][NextStateless]_vars

(***************************************************************************)
(* LRUCacheService on its own: any capacity, any calls, time passing       *)
(***************************************************************************)
\* The history of the calls says what the cache has to hold: the keys used
\* latest, as many as the capacity allows.
Min(a, b) == IF a < b THEN a ELSE b
HeldCount == Min(lruMax, Len(recency))
Held(key) == \E i \in 1..HeldCount : recency[i] = key
Used(key) == <<key>> \o SelectSeq(recency, LAMBDA k : k # key)

cacheCallerVars ==
    <<hostsFile, resolverErr, strategy, collab, callbacks, chosenFrom, bootstraps,
      lookups, last, controller, strategyVars, answered, hostsService, hostsCall>>

InitCache ==
    /\ ControllerIdle
    /\ hostsFile = <<>>
    /\ resolverErr = None
    /\ strategy = DefaultFailoverStrategy
    /\ controller = LookupController(NoControllerOptions)
    /\ StrategiesIdle
    /\ answered = [m \in FailoverMethods |-> NoAnswer]
    /\ lruMax \in {LRUCacheService(opts) : opts \in CacheOptionsSet}
    /\ CacheIdle
    /\ hostsService = NoHostsService
    /\ hostsCall = NoHostsCall

\* set(key, value): returns nothing
Set ==
    \E key \in ServiceKeys, value \in ServiceValues :
        /\ setsOn[key] < MaxSets
        /\ lru' = CacheAfterSet(lru, lruMax, key, value)
        /\ cacheCall' = [method |-> "set", key |-> key, value |-> Undefined,
                         pairs |-> <<>>]
        /\ stored' = [stored EXCEPT ![key] = value]
        /\ recency' = Used(key)
        /\ setsOn' = [setsOn EXCEPT ![key] = @ + 1]
        /\ UNCHANGED <<now, ticks, lruMax, cacheCallerVars>>

\* get(key): returns the value held for the key, or undefined
Get ==
    \E key \in ServiceKeys :
        /\ cacheCall' = [method |-> "get", key |-> key,
                         value |-> IF CacheHas(lru, key)
                                   THEN CacheGetValue(lru, key) ELSE Undefined,
                         pairs |-> <<>>]
        /\ lru' = CacheAfterGet(lru, key)
        /\ recency' = IF Held(key) THEN Used(key) ELSE recency
        /\ UNCHANGED <<now, ticks, lruMax, stored, setsOn, cacheCallerVars>>

\* entries(): returns the pairs held
Entries ==
    /\ cacheCall' = [method |-> "entries", key |-> None, value |-> Undefined,
                     pairs |-> CacheEntries(lru)]
    /\ UNCHANGED <<now, ticks, lru, lruMax, stored, recency, setsOn,
                   cacheCallerVars>>

NextCache ==
    \/ Set
    \/ Get
    \/ Entries
    \/ Tick

SpecCache == InitCache /\ [][NextCache]_vars

(***************************************************************************)
(* UniversalHostsFileService on its own: any platform, any options         *)
(***************************************************************************)
hostsCallerVars ==
    <<controllerVars, strategy, strategyVars, answered, lruMax, stored, recency,
      setsOn, cacheCall>>

InitHosts ==
    /\ ControllerIdle
    /\ hostsFile = <<>>
    /\ resolverErr = None
    /\ strategy = DefaultFailoverStrategy
    /\ controller = LookupController(NoControllerOptions)
    /\ StrategiesIdle
    /\ ServicesIdle

\* new UniversalHostsFileService(options) where platform() is platformName
Construct ==
    \E opts \in HostsOptionsSet, platformName \in Platforms :
        LET made == UniversalHostsFileService(opts, platformName) IN
        /\ hostsService' = [constructed |-> made.error = None,
                            platform |-> platformName, options |-> opts,
                            error |-> made.error, path |-> made.path]
        /\ hostsCall' = NoHostsCall
        /\ UNCHANGED hostsCallerVars

Read ==
    /\ hostsService.constructed
    /\ hostsCall' = [method |-> "read", delivery |-> read.delivery,
                     error |-> read.error]
    /\ UNCHANGED <<hostsCallerVars, hostsService>>

Watch ==
    /\ hostsService.constructed
    /\ hostsCall' = [method |-> "watch", delivery |-> watch.delivery,
                     error |-> watch.error]
    /\ UNCHANGED <<hostsCallerVars, hostsService>>

StopWatching ==
    /\ hostsService.constructed
    /\ hostsCall' = [method |-> "stopWatching", delivery |-> stopWatching.delivery,
                     error |-> stopWatching.error]
    /\ UNCHANGED <<hostsCallerVars, hostsService>>

NextHosts ==
    \/ Construct
    \/ Read
    \/ Watch
    \/ StopWatching

SpecHosts == InitHosts /\ [][NextHosts]_vars

(***************************************************************************)
(* Vocabulary of the lookup contract                                       *)
(***************************************************************************)
\* this step is a lookup(hostname, options) call
LookupCall(hostname, options) ==
    /\ lookups' = lookups + 1
    /\ last'.hostname = hostname
    /\ last'.options = options

ResolveMethod(family) == IF family = 4 THEN "resolve4" ELSE "resolve6"

NoResolverCall ==
    /\ collab'["resolve4"] = collab["resolve4"]
    /\ collab'["resolve6"] = collab["resolve6"]

HostsHas(hostname) == \E i \in 1..Len(hostsFile) : hostsFile[i][1] = hostname

HostsAddresses(hostname) ==
    {hostsFile[i][2] : i \in {j \in 1..Len(hostsFile) : hostsFile[j][1] = hostname}}

\* a hostname the resolver has to be asked about
Resolvable(hostname) == ~isIPv4(hostname) /\ ~HostsHas(hostname)

\* the call delivered address as its result, and no error
Returned(address) == last'.error = None /\ last'.value = address

ReturnedOneOf(addresses) == last'.error = None /\ Includes(addresses, last'.value)

FailedWith(code) == last'.error = code /\ last'.value = NoValue

Fresh(part) == part.present /\ now < part.expiresAtMs
Stale(part) == part.present /\ now >= part.expiresAtMs

\* the failover strategy lets an entry that expired at expiresAtMs answer for code
StalePermitted(code, expiresAtMs) ==
    LET verdict == useExpiredCache(strategy, DnsError(code)) IN
    /\ verdict # JsFalse
    /\ now - expiresAtMs <= verdict.maxExpirationMs

\* C1 (as claimed): single-flight. The lookup(h) calls made for a hostname that
\* has to be resolved, with nothing cached for (h, family) and no resolver
\* call for that family made or settled before them, leave exactly one
\* resolve4/resolve6 call made, and end with the resolver's outcome and no
\* other error.
C1_SingleFlight_Claimed ==
    [][\A h \in Hostnames, o \in LookupOptionsSet :
        (/\ LookupCall(h, o)
         /\ o.family \in {4, 6}
         /\ Resolvable(h)
         /\ ~CacheHas(lru, <<h, o.family>>)
         /\ collab[ResolveMethod(o.family)] = 0)
        => /\ collab'[ResolveMethod(o.family)] = 1
           /\ last'.error \in {None, resolverErr}]_vars

\* C2 (as claimed): fresh cache hit. A lookup(h) made while the cache holds a
\* fresh success entry for (h, family) makes no resolver call and returns one
\* of that entry's addresses.
C2_FreshHit_Claimed ==
    [][\A h \in Hostnames, o \in LookupOptionsSet :
        (/\ LookupCall(h, o)
         /\ o.family \in {4, 6}
         /\ Resolvable(h)
         /\ CacheHas(lru, <<h, o.family>>)
         /\ Fresh(CacheGetValue(lru, <<h, o.family>>).success)
         /\ ~CacheGetValue(lru, <<h, o.family>>).failure.present)
        => /\ NoResolverCall
           /\ ReturnedOneOf(CacheGetValue(lru, <<h, o.family>>).success.addresses)]_vars

\* C3 (as claimed): stale-on-error. A lookup(h) that finds a stale success entry
\* E while the resolver fails with err returns one of E's addresses if
\* useExpiredCache(err) gives maxExpirationMs and now - E.expiresAtMs is within
\* it, and rejects with err in every other case.
C3_StaleOnError_Claimed ==
    [][\A h \in Hostnames, o \in LookupOptionsSet :
        (/\ LookupCall(h, o)
         /\ o.family \in {4, 6}
         /\ Resolvable(h)
         /\ resolverErr # None
         /\ CacheHas(lru, <<h, o.family>>)
         /\ Stale(CacheGetValue(lru, <<h, o.family>>).success)
         /\ ~Fresh(CacheGetValue(lru, <<h, o.family>>).failure))
        => LET E == CacheGetValue(lru, <<h, o.family>>).success IN
           IF StalePermitted(resolverErr, E.expiresAtMs)
           THEN ReturnedOneOf(E.addresses)
           ELSE FailedWith(resolverErr)]_vars

\* C4 (as claimed): stale precedence. A lookup(h) made while a fresh failure and
\* stale success data are both cached for (h, family) makes no resolver call; it
\* returns one of the stale addresses if useExpiredCache permits, and rejects
\* with the cached failure otherwise.
C4_StalePrecedence_Claimed ==
    [][\A h \in Hostnames, o \in LookupOptionsSet :
        (/\ LookupCall(h, o)
         /\ o.family \in {4, 6}
         /\ Resolvable(h)
         /\ CacheHas(lru, <<h, o.family>>)
         /\ Stale(CacheGetValue(lru, <<h, o.family>>).success)
         /\ Fresh(CacheGetValue(lru, <<h, o.family>>).failure))
        => LET E == CacheGetValue(lru, <<h, o.family>>) IN
           /\ NoResolverCall
           /\ IF StalePermitted(E.failure.code, E.success.expiresAtMs)
              THEN ReturnedOneOf(E.success.addresses)
              ELSE FailedWith(E.failure.code)]_vars

\* C5 (as claimed): failure caching. While a cached resolver failure for
\* (h, family) is within its ttl, lookup(h) rejects with that error and makes no
\* resolver call; once the ttl has elapsed, lookup(h) calls the resolver again.
C5_FailureCaching_Claimed ==
    [][\A h \in Hostnames, o \in LookupOptionsSet :
        (/\ LookupCall(h, o)
         /\ o.family \in {4, 6}
         /\ Resolvable(h)
         /\ CacheHas(lru, <<h, o.family>>)
         /\ CacheGetValue(lru, <<h, o.family>>).failure.present
         /\ ~CacheGetValue(lru, <<h, o.family>>).success.present)
        => LET F == CacheGetValue(lru, <<h, o.family>>).failure IN
           IF Fresh(F)
           THEN NoResolverCall /\ FailedWith(F.code)
           ELSE collab'[ResolveMethod(o.family)] = collab[ResolveMethod(o.family)] + 1]_vars

\* "::ffff:" + x
V4Mapped(address) == <<"::ffff:">> \o address

\* C6 (as claimed): IP-literal short-circuit. For an IPv4 literal x, lookup(x)
\* makes no resolver call and no hosts read; it returns x for family 0 or 4,
\* "::ffff:"+x for family 6 with V4MAPPED, and fails with NOTFOUND for family 6
\* without V4MAPPED.
C6_LiteralShortCircuit_Claimed ==
    [][\A x \in Hostnames, o \in LookupOptionsSet :
        (LookupCall(x, o) /\ isIPv4(x))
        => /\ NoResolverCall
           /\ collab'["hosts.read"] = collab["hosts.read"]
           /\ IF o.family \in {0, 4} THEN Returned(x)
              ELSE IF "V4MAPPED" \in o.hints THEN Returned(V4Mapped(x))
              ELSE FailedWith(NOTFOUND)]_vars

\* C7 (as claimed): hosts overlay. After bootstrap, a lookup(h) for a hostname h
\* the hosts data maps to x returns x, makes no resolver call and writes
\* nothing to the cache, whatever the cache holds.
C7_HostsOverlay_Claimed ==
    [][\A h \in Hostnames, o \in LookupOptionsSet :
        (/\ LookupCall(h, o)
         /\ o.family \in {0, 4}
         /\ bootstraps >= 1
         /\ ~isIPv4(h)
         /\ HostsHas(h))
        => /\ NoResolverCall
           /\ collab'["cache.set"] = collab["cache.set"]
           /\ last'.error = None
           /\ last'.value \in HostsAddresses(h)]_vars

\* C8: no lookup call ends with EmptyArrayError, and the controller never
\* passes an empty array to ChoiceStrategy.chooseOne.
C8_NoEmptyArray ==
    /\ 0 \notin chosenFrom
    /\ last.op = "lookup" => last.error # EmptyArrayError

\* a lookup whose candidate list would be empty has been made: an IPv4 literal
\* asked for as family 6 without V4MAPPED
C8_Witness ==
    /\ last.op = "lookup"
    /\ isIPv4(last.hostname)
    /\ last.options.family = 6
    /\ last.options.hints = {}
    /\ last.error # None

\* C9 (as claimed): calling conventions. lookup without a callback delivers
\* its outcome through the promise it returns, never as a synchronous throw;
\* lookup with a callback invokes the callback exactly once.
C9_CallingConventions_Claimed ==
    last.op = "lookup" =>
        /\ last.style = "promise" => last.delivery \in {"fulfil", "reject"}
        /\ last.style = "callback" => last.delivery = "callback" /\ callbacks = 1

\* C10 (as claimed): bootstrap is idempotent. A second or later bootstrap()
\* completes successfully, with the hosts watcher registered once and the
\* persisted cache read at most once.
C10_BootstrapIdempotent_Claimed ==
    (last.op = "bootstrap" /\ bootstraps >= 2) =>
        /\ last.delivery = "fulfil"
        /\ last.error = None
        /\ collab["hosts.watch"] = 1
        /\ collab["storage.read"] <= 1

(***************************************************************************)
(* Teardown and throttling contracts of the controller                     *)
(***************************************************************************)
\* C11 (as claimed): teardown is safe without a prior bootstrap. A teardown()
\* made before any bootstrap() completes without error, calls no
\* HostsFileService.stopWatching, and calls PersistentStorageService.write only
\* if a persistent storage service was configured.
C11_TeardownUnbootstrapped_Claimed ==
    (last.op = "teardown" /\ bootstraps = 0) =>
        /\ last.delivery = "fulfil"
        /\ last.error = None
        /\ collab["hosts.stopWatching"] = 0
        /\ controller.persistentStorageService = Null => collab["storage.write"] = 0

C13_RoundRobin ==
    \A a \in ArrayIds :
        (chosen.array = a /\ a \notin resized /\ Len(arrays[a]) >= 1)
        => /\ chosen.error = None
           /\ chosen.value = arrays[a][((callsOn[a] - 1) % Len(arrays[a])) + 1]

\* a round was completed on one array of two items while calls were made with
\* another array of two items
C13_Witness ==
    \E a, b \in ArrayIds :
        /\ a # b
        /\ chosen.array = a
        /\ resized = {}
        /\ Len(arrays[a]) = 2
        /\ Len(arrays[b]) = 2
        /\ callsOn[a] = 3
        /\ callsOn[b] >= 1

\* C14: chooseOne throws EmptyArrayError exactly when the array it is called
\* with is empty, whatever calls were made before.
C14_EmptyArrayError ==
    chosen.array # None =>
        /\ chosen.error \in {None, EmptyArrayError}
        /\ chosen.error = EmptyArrayError <=> chosen.length = 0

\* chooseOne threw for an array it had chosen from before the array was emptied
C14_Witness ==
    /\ chosen.array \in DOMAIN choices
    /\ chosen.array \in resized
    /\ chosen.length = 0
    /\ chosen.error = EmptyArrayError

(***************************************************************************)
(* Decisions of UniversalFailoverStrategy                                  *)
(***************************************************************************)
\* the error carries a code, and the code is one of list
HasCodeIn(error, list) ==
    /\ getErrorCode(error) # None
    /\ Includes(list, getErrorCode(error))

\* the codes the strategy acts on when no list is configured
FiveDefaultCodes == {CONNREFUSED, NOTFOUND, REFUSED, SERVFAIL, TIMEOUT}

DnsErrors == {DnsError(code) : code \in DnsCodes}

\* C15 (as claimed): cacheResolverFailure(error) returns {ttlMs: cacheErrorTtlMs}
\* if and only if the error's code is one of the configured cacheErrorCodes,
\* and false otherwise, for every configured list and every error.
C15_CacheIffConfigured_Claimed ==
    decision.method = "cacheResolverFailure" =>
        decision.result =
            IF HasCodeIn(decision.error, strategy.cacheErrorCodes)
            THEN [ttlMs |-> strategy.cacheErrorTtlMs]
            ELSE JsFalse

C17_ExpiredIffConfigured_Claimed ==
    decision.method = "useExpiredCache" =>
        decision.result =
            IF HasCodeIn(decision.error, strategy.useExpiredCacheOnErrorCodes)
            THEN [maxExpirationMs |-> strategy.cacheMaxExpirationMs]
            ELSE JsFalse

C19_UnknownErrorIsFalse ==
    (decision.method # None /\ decision.error \in UnknownErrors)
    => decision.result = JsFalse

\* a strategy was asked about an error whose code is not a string but prints
\* as a code of both configured lists
C19_Witness ==
    /\ decision.method = "useExpiredCache"
    /\ decision.error \in UnknownErrors
    /\ decision.error.hasCode
    /\ Includes(strategy.cacheErrorCodes, decision.error.code)
    /\ Includes(strategy.useExpiredCacheOnErrorCodes, decision.error.code)

ReadmeFallbackCodes == {SERVFAIL, REFUSED, CONNREFUSED, TIMEOUT}

\* C21 (as claimed): by default the expired cache is allowed only for SERVFAIL,
\* REFUSED, CONNREFUSED and TIMEOUT; for an error with any other code the
\* default strategy forbids it.
C21_DefaultFallbackCodes_Claimed ==
    (/\ decision.method = "useExpiredCache"
     /\ strategy = DefaultFailoverStrategy
     /\ ~HasCodeIn(decision.error, <<SERVFAIL, REFUSED, CONNREFUSED, TIMEOUT>>))
    => decision.result = JsFalse

\* C21 (amended): by default the expired cache is allowed only for SERVFAIL,
\* REFUSED, CONNREFUSED, TIMEOUT and NOTFOUND; for any other error, with or
\* without a code, the default strategy forbids it.
C21_DefaultFallbackCodes ==
    (/\ decision.method = "useExpiredCache"
     /\ strategy = DefaultFailoverStrategy
     /\ decision.result # JsFalse)
    => /\ getErrorCode(decision.error) \in ReadmeFallbackCodes \cup {NOTFOUND}
       /\ decision.result.maxExpirationMs = strategy.cacheMaxExpirationMs

\* the default strategy was asked about a NODATA error and forbade the expired cache
C21_Witness ==
    /\ decision.method = "useExpiredCache"
    /\ strategy = DefaultFailoverStrategy
    /\ decision.error = DnsError(NODATA)
    /\ decision.result = JsFalse

(***************************************************************************)
(* Contract of LRUCacheService                                             *)
(***************************************************************************)
\* C22: LRUCacheService is bounded. After any sequence of set and get calls the
\* cache holds at most maxHostnames entries, and maxHostnames is 1000 when the
\* option is not given.
C22_Bounded ==
    /\ Len(lru) <= lruMax
    /\ \A opts \in CacheOptionsSet : ~opts.given => LRUCacheService(opts) = 1000

\* a cache of capacity 2 is full after all three keys were set
C22_Witness ==
    /\ lruMax = 2
    /\ Len(lru) = 2
    /\ \A key \in ServiceKeys : setsOn[key] >= 1

\* C23: get(k) returns undefined for a key that was never set, and the value
\* of the last set(k, v) for a key that has not been evicted since, however
\* much time has passed.
C23_GetReturnsLastSet ==
    cacheCall.method = "get" =>
        LET k == cacheCall.key IN
        /\ stored[k] = Undefined => cacheCall.value = Undefined
        /\ (stored[k] # Undefined /\ Held(k)) => cacheCall.value = stored[k]

\* after an hour, get returned the second value set for a key
C23_Witness ==
    /\ cacheCall.method = "get"
    /\ now >= 3600000
    /\ setsOn[cacheCall.key] = 2
    /\ cacheCall.value # Undefined
    /\ cacheCall.value = stored[cacheCall.key]

\* C24: entries() yields exactly the pairs the cache holds, each key once, from
\* the most recently used to the least recently used.
C24_EntriesByRecency ==
    cacheCall.method = "entries" =>
        /\ cacheCall.pairs =
               [i \in 1..HeldCount |-> <<recency[i], stored[recency[i]]>>]
        /\ \A i, j \in 1..Len(cacheCall.pairs) :
               i # j => cacheCall.pairs[i][1] # cacheCall.pairs[j][1]

\* entries() was called on a cache that holds two of the three keys set
C24_Witness ==
    /\ cacheCall.method = "entries"
    /\ Len(cacheCall.pairs) = 2
    /\ Len(recency) = 3

(***************************************************************************)
(* Construction of UniversalHostsFileService                               *)
(***************************************************************************)
\* the options name a path; `!path` counts the empty string as no path
ExplicitPath(opts) == opts.given /\ opts.path # EmptyPath

\* the text of a path, its backslashes aside
Unseparated(path) == SelectSeq(path, LAMBDA piece : piece # Backslash)

C26_WindowsHostsPath_Claimed ==
    (hostsService.platform = "win32" /\ ~ExplicitPath(hostsService.options))
    => /\ hostsService.error = None
       /\ hostsService.path = WindowsHostsPath

====
